---- MODULE Spec2Model ----
(***************************************************************************)
(* Patient document portal: the Express server's request handlers          *)
(* (server/routes.ts, server/jwtAuth.ts), the two tables of                *)
(* shared/schema.ts and the object store the handlers delegate to.         *)
(*                                                                         *)
(* Every handler is an async function: each `await` is a point where the   *)
(* event loop may run a step of another request, so a handler is a         *)
(* sequence of steps and a request in flight carries its position (pc).    *)
(* A step is the effect of the awaited call together with the synchronous  *)
(* code that follows it up to the next await.  The first step of a         *)
(* request is its arrival: isAuthenticated, the body parsers and the       *)
(* handler up to and including its first awaited call, none of which       *)
(* depends on anything an earlier interleaving point could have changed.   *)
(* `resp` is the response a step sends; it is delivered (cleared) before   *)
(* the next step is taken, so every response is observed in the state      *)
(* right after the step that sent it.                                      *)
(*                                                                         *)
(* `client` is the state of the React Home page in one browser             *)
(* (client/src/pages/Home.tsx with UploadZone, DocumentTable and the two   *)
(* dialogs).  A handler of the page that sends a request is one step with  *)
(* the arrival of that request at the server; the page takes the response  *)
(* in a step of its own.                                                   *)
(***************************************************************************)
EXTENDS Integers, Sequences, FiniteSets, Bags, TLC

VARIABLES users, documents, objects, tokens, reqs, resp, deleted, nextUserId, nextDocId, nextObjectId, env, client

vars == <<users, documents, objects, tokens, reqs, resp, deleted, nextUserId, nextDocId, nextObjectId, env, client>>

(* ------------------------------ bounds --------------------------------- *)

\* number of User rows ever created
MaxUsers == 2

\* number of randomUUID() object ids ever drawn by the upload handler
MaxUploads == 2

\* number of requests whose handlers can be in flight at once
MaxReqs == 2

\* the largest number of loadPDF calls of the preview dialog that have not
\* returned
MaxLoads == 3

(* --------------------------- program constants ------------------------- *)

\* multer limits.fileSize: 10 * 1024 * 1024
fileSize == 10485760

\* originalname.slice(0, 255)
MaxNameLen == 255

documentCategories == {"prescription", "test_result", "referral", "other"}

(* ------------------------------- values -------------------------------- *)

\* null / undefined of a record-valued expression
Null == [null |-> TRUE]

(* A file name is a sequence of characters. *)
Name_a_pdf == <<"a", ".", "p", "d", "f">>
Name_a_PDF == <<"a", ".", "P", "D", "F">>
Name_a_txt == <<"a", ".", "t", "x", "t">>
Name_dotpdf == <<".", "p", "d", "f">>
Name_a_pdf_txt == <<"a", ".", "p", "d", "f", ".", "t", "x", "t">>

\* String.prototype.toLowerCase on one character
LowerChar(c) ==
  CASE c = "A" -> "a"
    [] c = "B" -> "b"
    [] c = "P" -> "p"
    [] c = "D" -> "d"
    [] c = "F" -> "f"
    [] OTHER -> c

toLowerCase(s) == [i \in 1..Len(s) |-> LowerChar(s[i])]

\* index of the last "." of s, 0 when there is none
LastDot(s) ==
  LET dots == {i \in 1..Len(s) : s[i] = "."}
  IN IF dots = {} THEN 0 ELSE CHOOSE i \in dots : \A j \in dots : j <= i

\* Node's path.extname for a name without path separators
extname(s) ==
  LET d == LastDot(s)
  IN IF d = 0 \/ d = 1 \/ (d = 2 /\ Len(s) = 2 /\ s[1] = ".")
     THEN <<>>
     ELSE SubSeq(s, d, Len(s))

\* String.prototype.slice(0, n)
slice(s, n) == IF Len(s) <= n THEN s ELSE SubSeq(s, 1, n)

(* The multipart file part of an upload request, as multer hands it over. *)
File(name, mime, size, bytes) ==
  [originalname |-> name, mimetype |-> mime, size |-> size, buffer |-> bytes]

\* the files a client may send
Files ==
  { File(Name_a_pdf, "application/pdf", 1, "bytes1"),
    File(Name_a_PDF, "application/pdf", fileSize, "bytes2"),
    File(Name_a_pdf, "application/pdf", fileSize - 1, "bytes2"),
    File(Name_a_pdf, "application/pdf", fileSize + 1, "bytes3"),
    File(Name_a_txt, "text/plain", 1, "bytes1"),
    File(Name_a_txt, "text/plain", fileSize + 1, "bytes3"),
    File(Name_a_txt, "application/pdf", 1, "bytes1"),
    File(Name_a_pdf, "text/plain", 1, "bytes1"),
    File(Name_dotpdf, "application/pdf", 1, "bytes1"),
    File(Name_a_pdf_txt, "application/pdf", 1, "bytes1") }

\* req.body.category: undefined when the form has no such field
NoCategory == [present |-> FALSE]

\* the category fields a client may send
BodyCategories ==
  {NoCategory} \cup {[present |-> TRUE, value |-> v] : v \in {"", "referral", "invalid"}}

(* The clients of a run: env.files and env.categories are the upload forms  *)
(* they send, env.maxReqs the number of requests they keep in flight.       *)
(* Concurrent clients send the one-byte files, well-formed or not, with no  *)
(* category field; the upload clients send every file and category, one     *)
(* request at a time.                                                       *)
ConcurrentClients ==
  [files |-> {f \in Files : f.size = 1},
   categories |-> {NoCategory},
   maxReqs |-> MaxReqs]

UploadClients ==
  [files |-> Files, categories |-> BodyCategories, maxReqs |-> 1]

(* One browser showing the Home page next to programs that use the REST     *)
(* endpoints; env.picks are the files the page's user picks or drops,       *)
(* env.emails the accounts that are signed up, env.maxLoads the calls of    *)
(* loadPDF that may be waiting when a handler of the page starts another.   *)
PageClients ==
  [files |-> {File(Name_a_pdf, "application/pdf", 1, "bytes1")},
   picks |-> { File(Name_a_pdf, "application/pdf", 1, "bytes1"),
                File(Name_a_PDF, "application/pdf", fileSize, "bytes2"),
                File(Name_a_pdf, "application/pdf", fileSize + 1, "bytes3"),
                File(Name_a_txt, "text/plain", 1, "bytes1"),
                File(Name_a_txt, "text/plain", fileSize + 1, "bytes3") },
   categories |-> {NoCategory},
   emails |-> {"a@x"},
   maxReqs |-> 1,
   maxLoads |-> 1]

(* The browser of the preview specification: the calls of loadPDF that     *)
(* have not returned are bounded by MaxLoads.                               *)
PreviewClients == [PageClients EXCEPT !.maxLoads = MaxLoads]

\* req.body.email of signup and login ("" also stands for a missing field)
Emails == {"", "a@x", "b@x"}

\* req.body.password of login
Passwords == {"", "pw1", "pw2"}

\* req.body.password of signup
SignupPasswords == {"", "pw1"}

(* ------------------------------ jwtAuth.ts ----------------------------- *)

\* bcrypt.hash(password, 12); the salt is not modelled
bcryptHash(password) == <<"bcrypt", password>>

bcryptCompare(password, hash) == hash = bcryptHash(password)

\* jwt.sign({userId, email}, JWT_SECRET, {expiresIn}); iat/exp are carried as
\* the flag `expired`, which is FALSE at issuance
generateToken(userId, email) ==
  [userId |-> userId, email |-> email, sig |-> "JWT_SECRET", expired |-> FALSE]

verifyToken_ignores_expiry(token) ==
  IF token.sig = "JWT_SECRET"
  THEN [userId |-> token.userId, email |-> token.email]
  ELSE Null

verifyToken_ignores_signature(token) ==
  IF ~token.expired
  THEN [userId |-> token.userId, email |-> token.email]
  ELSE Null

\* jwt.verify(token, JWT_SECRET): null on a bad signature or an expired token
verifyToken(token) ==
  IF token.sig = "JWT_SECRET" /\ ~token.expired
  THEN [userId |-> token.userId, email |-> token.email]
  ELSE Null

NoHeader == [scheme |-> "none"]

\* the Authorization headers a client may present: none, a non-Bearer scheme,
\* an issued token (possibly after its expiry), a token signed with another key
Headers ==
  {NoHeader}
    \cup {[scheme |-> sc, token |-> t] : sc \in {"Basic ", "Bearer "}, t \in tokens}
    \cup {[scheme |-> "Bearer ", token |-> [t EXCEPT !.expired = TRUE]] : t \in tokens}
    \cup {[scheme |-> "Bearer ", token |-> [userId |-> u, email |-> "a@x", sig |-> "forged", expired |-> FALSE]] :
            u \in 1..MaxUsers}

\* isAuthenticated: the 401 response, or Null when next() is called
authFailure(header) ==
  IF header = NoHeader \/ header.scheme # "Bearer "
  THEN [status |-> 401, message |-> "Unauthorized"]
  ELSE IF verifyToken(header.token) = Null
       THEN [status |-> 401, message |-> "Invalid or expired token"]
       ELSE Null

\* req.user.claims.sub after isAuthenticated called next()
claimsSub(header) == verifyToken(header.token).userId

(* --------------------- storage.ts (DatabaseStorage) -------------------- *)

\* storage.getUser(id): the row, or undefined
getUser(id) == IF id \in DOMAIN users THEN users[id] ELSE Null

\* storage.getUserByEmail(email): the row, or undefined
getUserByEmail(email) ==
  IF \E u \in DOMAIN users : users[u].email = email
  THEN users[CHOOSE u \in DOMAIN users : users[u].email = email]
  ELSE Null

\* storage.getDocument(id): the row, or undefined
getDocument(id) == IF id \in DOMAIN documents THEN documents[id] ELSE Null

\* storage.getDocumentsByUser(userId): the rows of that user
getDocumentsByUser(userId) ==
  {documents[d] : d \in {e \in DOMAIN documents : documents[e].userId = userId}}

\* a table with one more row
Insert(table, id, row) ==
  [k \in DOMAIN table \cup {id} |-> IF k = id THEN row ELSE table[k]]

\* a table or store without one key
Remove(table, id) == [k \in DOMAIN table \ {id} |-> table[k]]

(* ---------------------- objectStorage.ts, objectAcl.ts ----------------- *)

\* `uploads/${objectId}.pdf`
objectPathOf(objectId) == <<"uploads/", objectId, ".pdf">>

\* `${objectId}.pdf`
filenameOf(objectId) == <<objectId, ".pdf">>

\* the object uploadBuffer writes: no ACL policy yet
NewObject(buffer, contentType) ==
  [bytes |-> buffer, contentType |-> contentType, acl |-> Null]

(* ------------------------- requests and responses ---------------------- *)

\* a request whose handler has been entered; header is its Authorization
\* header, userId is req.user.claims.sub (0 when req.user is not set), origin
\* tells who sent it: "api" for a program using the REST endpoints, "page"
\* for the React page
NewReq(kind, pc, header, userId, id) ==
  [kind |-> kind, pc |-> pc, header |-> header, userId |-> userId, id |-> id,
   origin |-> "api", doc |-> Null, file |-> Null, category |-> NoCategory, objectId |-> 0,
   email |-> "", password |-> "",
   wroteDb |-> FALSE, wroteStore |-> FALSE, readStore |-> FALSE]

NoBody == [type |-> "none"]

\* the response to request r, with the request it answers
Response(r, status, message, body) ==
  [kind |-> r.kind, status |-> status, message |-> message, body |-> body,
   header |-> r.header, userId |-> r.userId, id |-> r.id,
   origin |-> r.origin, doc |-> r.doc, file |-> r.file, category |-> r.category, objectId |-> r.objectId,
   email |-> r.email, password |-> r.password,
   wroteDb |-> r.wroteDb, wroteStore |-> r.wroteStore, readStore |-> r.readStore]

\* no response is being sent
NoResponse == Response(NewReq("none", "none", NoHeader, 0, 0), 0, "", NoBody)

\* the requests in flight
InFlight == BagToSet(reqs)

\* a new request may arrive
CanArrive == resp = NoResponse /\ BagCardinality(reqs) < env.maxReqs

\* request r, in flight, may take its step at pc
At(r, kind, pc) == resp = NoResponse /\ r.kind = kind /\ r.pc = pc

\* an arriving request is answered at once
Answer(r, status, message, body) ==
  /\ resp' = Response(r, status, message, body)
  /\ UNCHANGED reqs

\* an arriving request reaches an await as r
Enter(r) == reqs' = reqs (+) SetToBag({r}) /\ resp' = NoResponse

\* res.status(..).json(..) / stream end: request r, in flight, is finished;
\* r2 is r with what its last step did
Send(r, r2, status, message, body) ==
  /\ resp' = Response(r2, status, message, body)
  /\ reqs' = reqs (-) SetToBag({r})

\* request r, in flight, reaches its next await as r2: the step sends nothing
Await(r, r2) == reqs' = (reqs (-) SetToBag({r})) (+) SetToBag({r2}) /\ resp' = NoResponse

\* the response has left the server
Deliver ==
  /\ resp # NoResponse
  /\ resp.origin = "api"
  /\ resp' = NoResponse
  /\ UNCHANGED <<client, env, users, documents, objects, tokens, reqs, deleted, nextUserId, nextDocId, nextObjectId>>

\* no callback was invoked by the last step of the page
NoCall == [fn |-> "none"]

\* the Home page after its first render: useState and useRef initial
\* values, `documents` the default of the list query. token is the session
\* token its user holds; called is the callback the last step invoked
\* (with the query key it passed to queryClient.invalidateQueries, "" when
\* it did not call it); loads are the calls of loadPDF that have not
\* returned; objectUrls are the blob URLs created and not revoked.
Mounted ==
  [token |-> Null,
   selectedFile |-> Null, selectedCategory |-> "other", uploadPending |-> FALSE,
   documents |-> {},
   searchQuery |-> <<>>, categoryFilter |-> "all",
   documentToDelete |-> Null, deletePending |-> FALSE,
   documentToPreview |-> Null, isLoading |-> FALSE, blobUrl |-> Null,
   blobUrlRef |-> Null, loads |-> {}, objectUrls |-> {},
   called |-> NoCall]

\* the longest fetched list of the list specification
MaxListLen == 3

\* rows of a fetched list, with the columns the search and the filter read
ListedDocuments ==
  { [id |-> 1, originalFilename |-> Name_a_pdf, category |-> "referral"],
    [id |-> 2, originalFilename |-> Name_a_PDF, category |-> "other"],
    [id |-> 3, originalFilename |-> <<"b", ".", "p", "d", "f">>, category |-> "referral"],
    [id |-> 4, originalFilename |-> Name_a_pdf, category |-> "other"] }

\* the arrays the list query may hold: rows in any order, no row twice
FetchedLists ==
  { l \in UNION { [1..n -> ListedDocuments] : n \in 0..MaxListLen } :
      \A i, j \in 1..Len(l) : l[i].id = l[j].id => i = j }

\* what the user types into the search box
SearchQueries ==
  { <<>>, <<"a">>, <<"B">>, <<"P", "D", "F">>, <<"p", "d", "f">>, <<"a", ".", "P">>, <<"x">> }

\* the server after registerRoutes, with an empty database and store
ServerStarted ==
  /\ users = <<>>
  /\ documents = <<>>
  /\ objects = <<>>
  /\ tokens = {}
  /\ reqs = EmptyBag
  /\ resp = NoResponse
  /\ deleted = {}
  /\ nextUserId = 1
  /\ nextDocId = 1
  /\ nextObjectId = 1

\* the server started and the page mounted
Started == ServerStarted /\ client = Mounted

Init == Started /\ env = ConcurrentClients

InitUpload == Started /\ env = UploadClients

InitPage == Started /\ env = PageClients

\* the Home page once the list query holds a fetched array, in its order
InitList ==
  /\ ServerStarted /\ env = PageClients
  /\ \E l \in FetchedLists : client = [Mounted EXCEPT !.documents = l]

(* ----------------------- jwtAuth.ts: isAuthenticated ------------------- *)

\* isAuthenticated answered 401: the handler is not entered
Unauthorized(kind, header) ==
  /\ resp' = Response(NewReq(kind, "isAuthenticated", header, 0, 0),
                      authFailure(header).status, authFailure(header).message, NoBody)
  /\ UNCHANGED <<env, users, documents, objects, tokens, reqs, deleted, nextUserId, nextDocId, nextObjectId>>

\* isAuthenticated answered 401 to the page's request r
PageUnauthorized(r) ==
  /\ resp' = Response(r, authFailure(r.header).status, authFailure(r.header).message, NoBody)
  /\ UNCHANGED <<env, users, documents, objects, tokens, reqs, deleted, nextUserId, nextDocId, nextObjectId>>

\* the request isAuthenticated hands to the handler of route `kind`
Authenticated(kind, pc, header) ==
  NewReq(kind, pc, header, claimsSub(header), 0)

(* ----------------- GET /api/auth/user, GET /api/documents -------------- *)

\* the handler of GET /api/auth/user
GetAuthUser(r, ok) ==
  /\ IF ok
     THEN Answer(r, 200, "", [type |-> "user", user |-> getUser(r.userId)])
     ELSE Answer(r, 500, "Failed to fetch user", NoBody)
  /\ UNCHANGED <<env, users, documents, objects, tokens, deleted, nextUserId, nextDocId, nextObjectId>>

AuthUserRoute(header) ==
  /\ CanArrive
  /\ UNCHANGED client
  /\ IF authFailure(header) # Null
     THEN Unauthorized("authUser", header)
     ELSE \E ok \in BOOLEAN : GetAuthUser(Authenticated("authUser", "getUser", header), ok)

listBody_all_rows(userId) ==
  [type |-> "documents", documents |-> {documents[d] : d \in DOMAIN documents}]

\* _res.json(documents) of GET /api/documents
listBody(userId) ==
  [type |-> "documents", documents |-> getDocumentsByUser(userId)]

\* the handler of GET /api/documents
ListDocuments(r, ok) ==
  /\ IF ok
     THEN Answer(r, 200, "", listBody(r.userId))
     ELSE Answer(r, 500, "Failed to fetch documents", NoBody)
  /\ UNCHANGED <<env, users, documents, objects, tokens, deleted, nextUserId, nextDocId, nextObjectId>>

ListRoute(header) ==
  /\ CanArrive
  /\ UNCHANGED client
  /\ IF authFailure(header) # Null
     THEN Unauthorized("list", header)
     ELSE \E ok \in BOOLEAN : ListDocuments(Authenticated("list", "getDocumentsByUser", header), ok)

(* ----------------------- POST /api/documents/upload -------------------- *)

fileFilter_mime_only(file) == file.mimetype = "application/pdf"

\* multer fileFilter: TRUE when cb(null, true)
fileFilter(file) ==
  LET ext == toLowerCase(extname(file.originalname))
  IN file.mimetype = "application/pdf" /\ ext = <<".", "p", "d", "f">>

multerError_no_size_limit(file) ==
  IF ~fileFilter(file)
  THEN [status |-> 400, message |-> "Only PDF files are allowed"]
  ELSE Null

\* the 400 of the error middleware for what upload.single("file") passes to
\* next(err), or Null when the file is accepted
multerError(file) ==
  IF ~fileFilter(file)
  THEN [status |-> 400, message |-> "Only PDF files are allowed"]
  ELSE IF file.size > fileSize
       THEN [status |-> 400, message |-> "File size must be less than 10MB"]
       ELSE Null

\* req.body.category || "other"
categoryOf(category) ==
  IF category.present /\ category.value # "" THEN category.value ELSE "other"

\* upload.single("file") has parsed the body; the handler runs up to its
\* first await (uploadBuffer), having drawn objectId = randomUUID()
MulterSingle(r0, file, category) ==
  /\ LET r == [r0 EXCEPT !.file = file, !.category = category]
     IN IF file = Null
        THEN Answer(r, 400, "No file uploaded", NoBody) /\ UNCHANGED nextObjectId
        ELSE IF multerError(file) # Null
        THEN /\ Answer(r, multerError(file).status, multerError(file).message, NoBody)
             /\ UNCHANGED nextObjectId
        ELSE /\ nextObjectId <= MaxUploads
             /\ Enter([r EXCEPT !.pc = "uploadBuffer", !.objectId = nextObjectId])
             /\ nextObjectId' = nextObjectId + 1
  /\ UNCHANGED <<env, users, documents, objects, tokens, deleted, nextUserId, nextDocId>>

UploadRoute(header) ==
  /\ CanArrive
  /\ UNCHANGED client
  /\ IF authFailure(header) # Null
     THEN Unauthorized("upload", header)
     ELSE \E file \in env.files \cup {Null}, category \in env.categories :
            MulterSingle(Authenticated("upload", "multer", header), file, category)

UploadBuffer_by_original_name(r, ok) ==
  /\ At(r, "upload", "uploadBuffer")
  /\ IF ok
     THEN /\ objects' = Insert(objects, objectPathOf(1),
                                NewObject(r.file.buffer, "application/pdf"))
          /\ Await(r, [r EXCEPT !.pc = "getObjectEntityFile", !.wroteStore = TRUE])
     ELSE /\ Send(r, r, 500, "Failed to upload document", NoBody)
          /\ UNCHANGED objects
  /\ UNCHANGED <<client, env, users, documents, tokens, deleted, nextUserId, nextDocId, nextObjectId>>

\* await objectStorageService.uploadBuffer(buffer, objectPath, "application/pdf")
UploadBuffer(r, ok) ==
  /\ At(r, "upload", "uploadBuffer")
  /\ IF ok
     THEN /\ objects' = Insert(objects, objectPathOf(r.objectId),
                                NewObject(r.file.buffer, "application/pdf"))
          /\ Await(r, [r EXCEPT !.pc = "getObjectEntityFile", !.wroteStore = TRUE])
     ELSE /\ Send(r, r, 500, "Failed to upload document", NoBody)
          /\ UNCHANGED objects
  /\ UNCHANGED <<client, env, users, documents, tokens, deleted, nextUserId, nextDocId, nextObjectId>>

\* await objectStorageService.getObjectEntityFile(objectPath) in the upload
UploadGetObjectEntityFile(r, ok) ==
  /\ At(r, "upload", "getObjectEntityFile")
  /\ IF ok /\ objectPathOf(r.objectId) \in DOMAIN objects
     THEN Await(r, [r EXCEPT !.pc = "setObjectAclPolicy", !.readStore = TRUE])
     ELSE Send(r, r, 500, "Failed to upload document", NoBody)
  /\ UNCHANGED <<client, env, users, documents, objects, tokens, deleted, nextUserId, nextDocId, nextObjectId>>

SetObjectAclPolicy_error_ignored(r, ok) ==
  /\ At(r, "upload", "setObjectAclPolicy")
  /\ LET path == objectPathOf(r.objectId)
     IN IF ok /\ path \in DOMAIN objects
        THEN /\ objects' = [objects EXCEPT ![path].acl =
                               [owner |-> r.userId, visibility |-> "private"]]
             /\ Await(r, [r EXCEPT !.pc = "createDocument"])
        ELSE /\ Await(r, [r EXCEPT !.pc = "createDocument"])
             /\ UNCHANGED objects
  /\ UNCHANGED <<client, env, users, documents, tokens, deleted, nextUserId, nextDocId, nextObjectId>>

SetObjectAclPolicy_public(r, ok) ==
  /\ At(r, "upload", "setObjectAclPolicy")
  /\ LET path == objectPathOf(r.objectId)
     IN IF ok /\ path \in DOMAIN objects
        THEN /\ objects' = [objects EXCEPT ![path].acl =
                               [owner |-> r.userId, visibility |-> "public"]]
             /\ Await(r, [r EXCEPT !.pc = "createDocument"])
        ELSE /\ Send(r, r, 500, "Failed to upload document", NoBody)
             /\ UNCHANGED objects
  /\ UNCHANGED <<client, env, users, documents, tokens, deleted, nextUserId, nextDocId, nextObjectId>>

\* await setObjectAclPolicy(objectFile, {owner: userId, visibility: "private"})
SetObjectAclPolicy(r, ok) ==
  /\ At(r, "upload", "setObjectAclPolicy")
  /\ LET path == objectPathOf(r.objectId)
     IN IF ok /\ path \in DOMAIN objects
        THEN /\ objects' = [objects EXCEPT ![path].acl =
                               [owner |-> r.userId, visibility |-> "private"]]
             /\ Await(r, [r EXCEPT !.pc = "createDocument"])
        ELSE /\ Send(r, r, 500, "Failed to upload document", NoBody)
             /\ UNCHANGED objects
  /\ UNCHANGED <<client, env, users, documents, tokens, deleted, nextUserId, nextDocId, nextObjectId>>

documentData_path_from_name(r) ==
  [filename |-> r.file.originalname,
   originalFilename |-> slice(r.file.originalname, MaxNameLen),
   filepath |-> <<"uploads/", r.file.originalname>>,
   filesize |-> r.file.size,
   mimetype |-> "application/pdf",
   category |-> categoryOf(r.category),
   userId |-> r.userId]

\* documentData of the upload handler
documentData(r) ==
  [filename |-> filenameOf(r.objectId),
   originalFilename |-> slice(r.file.originalname, MaxNameLen),
   filepath |-> objectPathOf(r.objectId),
   filesize |-> r.file.size,
   mimetype |-> "application/pdf",
   category |-> categoryOf(r.category),
   userId |-> r.userId]

\* insertDocumentSchema.parse: the columns are text / integer / varchar, so
\* any string is a category and any integer a filesize
insertDocumentSchema(data) ==
  /\ data.filesize \in Int
  /\ data.userId # 0

\* insertDocumentSchema.parse(documentData); await storage.createDocument(..);
\* res.status(201).json(document)
CreateDocument(r, ok) ==
  /\ At(r, "upload", "createDocument")
  /\ LET data == documentData(r)
         row == [id |-> nextDocId] @@ data
     IN IF ok /\ insertDocumentSchema(data)
        THEN /\ documents' = Insert(documents, nextDocId, row)
             /\ nextDocId' = nextDocId + 1
             /\ Send(r, [r EXCEPT !.wroteDb = TRUE, !.doc = row], 201, "",
                     [type |-> "document", document |-> row])
        ELSE /\ Send(r, r, 500, "Failed to upload document", NoBody)
             /\ UNCHANGED <<documents, nextDocId>>
  /\ UNCHANGED <<client, env, users, objects, tokens, deleted, nextUserId, nextObjectId>>

(* ------ GET /api/documents/:id/download, /preview; DELETE /:id --------- *)

failureMessage(kind) ==
  CASE kind = "download" -> "Failed to download document"
    [] kind = "preview" -> "Failed to preview document"
    [] OTHER -> "Failed to delete document"

\* the :id parameters a client may send (one more than can exist)
ParamIds == 1..(MaxUploads + 1)

accessDenied_never(document, userId) == FALSE

\* document.userId !== userId
accessDenied(document, userId) == document.userId # userId

GetDocument_delete_unchecked(r0, id, ok) ==
  /\ LET document == getDocument(id)
         r == [r0 EXCEPT !.id = id]
         rd == [r EXCEPT !.doc = document]
     IN IF ~ok
        THEN Answer(r, 500, failureMessage(r.kind), NoBody)
        ELSE IF document = Null
        THEN Answer(r, 404, "Document not found", NoBody)
        ELSE IF r.kind # "delete" /\ accessDenied(document, r.userId)
        THEN Answer(rd, 403, "Access denied", NoBody)
        ELSE Enter([rd EXCEPT !.pc = IF r.kind = "delete" THEN "deleteObject"
                                                          ELSE "getObjectEntityFile"])
  /\ UNCHANGED <<env, users, documents, objects, tokens, deleted, nextUserId, nextDocId, nextObjectId>>

GetDocument_missing_as_denied(r0, id, ok) ==
  /\ LET document == getDocument(id)
         r == [r0 EXCEPT !.id = id]
         rd == [r EXCEPT !.doc = document]
     IN IF ~ok
        THEN Answer(r, 500, failureMessage(r.kind), NoBody)
        ELSE IF document = Null \/ accessDenied(document, r.userId)
        THEN Answer(rd, 403, "Access denied", NoBody)
        ELSE Enter([rd EXCEPT !.pc = IF r.kind = "delete" THEN "deleteObject"
                                                          ELSE "getObjectEntityFile"])
  /\ UNCHANGED <<env, users, documents, objects, tokens, deleted, nextUserId, nextDocId, nextObjectId>>

\* await storage.getDocument(req.params.id), then the 404 and 403 checks
GetDocument(r0, id, ok) ==
  /\ LET document == getDocument(id)
         r == [r0 EXCEPT !.id = id]
         rd == [r EXCEPT !.doc = document]
     IN IF ~ok
        THEN Answer(r, 500, failureMessage(r.kind), NoBody)
        ELSE IF document = Null
        THEN Answer(r, 404, "Document not found", NoBody)
        ELSE IF accessDenied(document, r.userId)
        THEN Answer(rd, 403, "Access denied", NoBody)
        ELSE Enter([rd EXCEPT !.pc = IF r.kind = "delete" THEN "deleteObject"
                                                          ELSE "getObjectEntityFile"])
  /\ UNCHANGED <<env, users, documents, objects, tokens, deleted, nextUserId, nextDocId, nextObjectId>>

DocumentRoute(kind, header) ==
  /\ CanArrive
  /\ UNCHANGED client
  /\ IF authFailure(header) # Null
     THEN Unauthorized(kind, header)
     ELSE \E id \in ParamIds, ok \in BOOLEAN :
            GetDocument(Authenticated(kind, "getDocument", header), id, ok)

DownloadRoute(header) == DocumentRoute("download", header)

PreviewRoute(header) == DocumentRoute("preview", header)

DeleteRoute(header) == DocumentRoute("delete", header)

GetObjectEntityFile_unchecked(r, ok) ==
  /\ r.kind \in {"download", "preview"}
  /\ At(r, r.kind, "getObjectEntityFile")
  /\ LET r2 == [r EXCEPT !.readStore = TRUE]
     IN IF ~ok
        THEN Send(r, r2, 500, failureMessage(r.kind), NoBody)
        ELSE Await(r, [r2 EXCEPT !.pc = "stream"])
  /\ UNCHANGED <<client, env, users, documents, objects, tokens, deleted, nextUserId, nextDocId, nextObjectId>>

\* await objectStorageService.getObjectEntityFile(document.filepath) of
\* download and preview: ObjectNotFoundError is answered 404
GetObjectEntityFile(r, ok) ==
  /\ r.kind \in {"download", "preview"}
  /\ At(r, r.kind, "getObjectEntityFile")
  /\ LET r2 == [r EXCEPT !.readStore = TRUE]
     IN IF ~ok
        THEN Send(r, r2, 500, failureMessage(r.kind), NoBody)
        ELSE IF r.doc.filepath \notin DOMAIN objects
        THEN Send(r, r2, 404, "File not found on server", NoBody)
        ELSE Await(r, [r2 EXCEPT !.pc = "stream"])
  /\ UNCHANGED <<client, env, users, documents, objects, tokens, deleted, nextUserId, nextDocId, nextObjectId>>

\* objectFile.createReadStream().pipe(res): the bytes, or the stream's
\* error event before any byte was sent
Stream(r, ok) ==
  /\ r.kind \in {"download", "preview"}
  /\ At(r, r.kind, "stream")
  /\ IF ok /\ r.doc.filepath \in DOMAIN objects
     THEN Send(r, r, 200, "", [type |-> "pdf", bytes |-> objects[r.doc.filepath].bytes,
                               from |-> r.doc.filepath])
     ELSE Send(r, r, 500, "Error streaming file", NoBody)
  /\ UNCHANGED <<client, env, users, documents, objects, tokens, deleted, nextUserId, nextDocId, nextObjectId>>

DeleteObject_skipped(r, ok) ==
  /\ At(r, "delete", "deleteObject")
  /\ IF ok
     THEN Await(r, [r EXCEPT !.pc = "deleteDocument"])
     ELSE Send(r, r, 500, "Failed to delete document", NoBody)
  /\ UNCHANGED <<client, env, users, documents, objects, tokens, deleted, nextUserId, nextDocId, nextObjectId>>

DeleteObject_error_ignored(r, ok) ==
  /\ At(r, "delete", "deleteObject")
  /\ objects' = IF ok THEN Remove(objects, r.doc.filepath) ELSE objects
  /\ Await(r, [r EXCEPT !.pc = "deleteDocument",
                        !.wroteStore = ok /\ r.doc.filepath \in DOMAIN objects])
  /\ UNCHANGED <<client, env, users, documents, tokens, deleted, nextUserId, nextDocId, nextObjectId>>

\* await objectStorageService.deleteObject(document.filepath)
DeleteObject(r, ok) ==
  /\ At(r, "delete", "deleteObject")
  /\ IF ok
     THEN /\ objects' = Remove(objects, r.doc.filepath)
          /\ Await(r, [r EXCEPT !.pc = "deleteDocument",
                                !.wroteStore = r.doc.filepath \in DOMAIN objects])
     ELSE /\ Send(r, r, 500, "Failed to delete document", NoBody)
          /\ UNCHANGED objects
  /\ UNCHANGED <<client, env, users, documents, tokens, deleted, nextUserId, nextDocId, nextObjectId>>

DeleteDocument_result_ignored(r, ok) ==
  /\ At(r, "delete", "deleteDocument")
  /\ IF ok
     THEN /\ documents' = Remove(documents, r.id)
          /\ Send(r, [r EXCEPT !.wroteDb = r.id \in DOMAIN documents], 200,
                  "Document deleted successfully", NoBody)
          /\ deleted' = deleted \cup {[id |-> r.id, filepath |-> r.doc.filepath]}
     ELSE /\ Send(r, r, 500, "Failed to delete document", NoBody)
          /\ UNCHANGED <<documents, deleted>>
  /\ UNCHANGED <<client, env, users, objects, tokens, nextUserId, nextDocId, nextObjectId>>

\* const deleted = await storage.deleteDocument(req.params.id): 200 when a
\* row was removed
DeleteDocument(r, ok) ==
  /\ At(r, "delete", "deleteDocument")
  /\ IF ok
     THEN /\ documents' = Remove(documents, r.id)
          /\ IF r.id \in DOMAIN documents
             THEN /\ Send(r, [r EXCEPT !.wroteDb = TRUE], 200, "Document deleted successfully", NoBody)
                  /\ deleted' = deleted \cup {[id |-> r.id, filepath |-> r.doc.filepath]}
             ELSE /\ Send(r, r, 500, "Failed to delete document", NoBody)
                  /\ UNCHANGED deleted
     ELSE /\ Send(r, r, 500, "Failed to delete document", NoBody)
          /\ UNCHANGED <<documents, deleted>>
  /\ UNCHANGED <<client, env, users, objects, tokens, nextUserId, nextDocId, nextObjectId>>

(* ------------------- jwtAuth.ts: signup, login, logout ----------------- *)

\* POST /api/signup up to `await bcrypt.hash` / `await storage.upsertUser`
Signup(email, password, ok) ==
  /\ CanArrive
  /\ LET r == [NewReq("signup", "getUserByEmail", NoHeader, 0, 0) EXCEPT
                  !.email = email, !.password = password]
     IN IF email = "" \/ password = ""
        THEN Answer(r, 400, "Email and password required", NoBody)
        ELSE IF ~ok
        THEN Answer(r, 500, "Signup failed", NoBody)
        ELSE IF getUserByEmail(email) # Null
        THEN Answer(r, 400, "User already exists", NoBody)
        ELSE Enter([r EXCEPT !.pc = "upsertUser"])
  /\ UNCHANGED <<client, env, users, documents, objects, tokens, deleted, nextUserId, nextDocId, nextObjectId>>

\* bcrypt.hash, await storage.upsertUser(..), generateToken, 201; the insert
\* fails on the unique constraint of users.email
UpsertUser(r, ok) ==
  /\ At(r, "signup", "upsertUser")
  /\ LET user == [id |-> nextUserId, email |-> r.email,
                  passwordHash |-> bcryptHash(r.password)]
         token == generateToken(user.id, user.email)
     IN IF ok /\ getUserByEmail(r.email) = Null
        THEN /\ nextUserId <= MaxUsers
             /\ users' = Insert(users, nextUserId, user)
             /\ nextUserId' = nextUserId + 1
             /\ tokens' = tokens \cup {token}
             /\ Send(r, [r EXCEPT !.wroteDb = TRUE], 201, "",
                     [type |-> "session", token |-> token, user |-> user])
        ELSE /\ Send(r, r, 500, "Signup failed", NoBody)
             /\ UNCHANGED <<users, nextUserId, tokens>>
  /\ UNCHANGED <<client, env, documents, objects, deleted, nextDocId, nextObjectId>>

\* POST /api/login: getUserByEmail, bcrypt.compare, generateToken
Login(email, password, ok) ==
  /\ CanArrive
  /\ LET r == [NewReq("login", "getUserByEmail", NoHeader, 0, 0) EXCEPT
                  !.email = email, !.password = password]
         user == getUserByEmail(email)
     IN IF email = "" \/ password = ""
        THEN Answer(r, 400, "Email and password required", NoBody) /\ UNCHANGED tokens
        ELSE IF ~ok
        THEN Answer(r, 500, "Login failed", NoBody) /\ UNCHANGED tokens
        ELSE IF user = Null \/ ~bcryptCompare(password, user.passwordHash)
        THEN Answer(r, 401, "Invalid credentials", NoBody) /\ UNCHANGED tokens
        ELSE /\ Answer(r, 200, "", [type |-> "session",
                                    token |-> generateToken(user.id, user.email),
                                    user |-> user])
             /\ tokens' = tokens \cup {generateToken(user.id, user.email)}
  /\ UNCHANGED <<client, env, users, documents, objects, deleted, nextUserId, nextDocId, nextObjectId>>

\* GET /api/logout
Logout ==
  /\ CanArrive
  /\ Answer(NewReq("logout", "done", NoHeader, 0, 0), 200, "Logged out successfully", NoBody)
  /\ UNCHANGED <<client, env, users, documents, objects, tokens, deleted, nextUserId, nextDocId, nextObjectId>>

(* --------- the Home page: UploadZone, DocumentTable, the dialogs -------- *)

\* UploadZone.tsx: MAX_FILE_SIZE = 10 * 1024 * 1024
MAX_FILE_SIZE == 10485760

ACCEPTED_FILE_TYPE == "application/pdf"

\* the Authorization header of fetch(url, init) for an init without headers
fetchHeader == NoHeader

\* the Authorization header apiRequest and the default queryFn send
apiRequestHeader ==
  IF client.token = Null THEN NoHeader ELSE [scheme |-> "Bearer ", token |-> client.token]

\* a request of the page arriving at the server; id is the :id of its URL
PageReq(kind, header, id) ==
  [NewReq(kind, "isAuthenticated", header, 0, id) EXCEPT !.origin = "page"]

\* Express takes the page's request r0 through isAuthenticated and the
\* route's handler up to its first await
PageRoute(r0, file, category, id, ok) ==
  IF authFailure(r0.header) # Null
  THEN PageUnauthorized(r0)
  ELSE LET r == [r0 EXCEPT !.userId = claimsSub(r0.header)]
       IN CASE r.kind = "upload" -> MulterSingle([r EXCEPT !.pc = "multer"], file, category)
            [] r.kind = "list" -> ListDocuments([r EXCEPT !.pc = "getDocumentsByUser"], ok)
            [] OTHER -> GetDocument([r EXCEPT !.pc = "getDocument"], id, ok)

\* the response in `resp` answers a request of the page on route `kind`
PageResponse(kind) == resp # NoResponse /\ resp.origin = "page" /\ resp.kind = kind

\* response.ok
ResponseOk == resp.status >= 200 /\ resp.status <= 299

\* a handler of the page that sends nothing
PageOnly ==
  /\ resp = NoResponse
  /\ UNCHANGED <<env, users, documents, objects, tokens, reqs, resp, deleted, nextUserId, nextDocId, nextObjectId>>

\* the page receives the response: nothing else of the server changes
Received ==
  /\ resp' = NoResponse
  /\ UNCHANGED <<env, users, documents, objects, tokens, reqs, deleted, nextUserId, nextDocId, nextObjectId>>

\* the user of the page signs in and the page holds the token from then on
PageLogin(token) ==
  /\ PageOnly
  /\ client.token = Null
  /\ client' = [client EXCEPT !.token = token, !.called = NoCall]

\* validateFile: the error message, "" for null
validateFile(file) ==
  IF file.mimetype # ACCEPTED_FILE_TYPE
  THEN "Only PDF files are allowed"
  ELSE IF file.size > MAX_FILE_SIZE
       THEN "File size must be less than 10MB"
       ELSE ""

\* handleFileSelect(file), from handleDrop or handleInputChange
HandleFileSelect(file) ==
  /\ PageOnly
  /\ ~client.uploadPending
  /\ LET error == validateFile(file)
     IN IF error # ""
        THEN client' = [client EXCEPT !.called = [fn |-> "onUploadError", message |-> error]]
        ELSE client' = [client EXCEPT !.selectedFile = file, !.called = NoCall]

\* onValueChange of the category Select
SetSelectedCategory(category) ==
  /\ PageOnly
  /\ client.selectedFile # Null /\ ~client.uploadPending
  /\ client' = [client EXCEPT !.selectedCategory = category, !.called = NoCall]

\* handleClearFile
HandleClearFile ==
  /\ PageOnly
  /\ client.selectedFile # Null /\ ~client.uploadPending
  /\ client' = [client EXCEPT !.selectedFile = Null, !.selectedCategory = "other",
                              !.called = NoCall]

\* handleUpload: uploadMutation.mutate and the fetch of its mutationFn
HandleUpload ==
  /\ CanArrive
  /\ client.selectedFile # Null /\ ~client.uploadPending
  /\ client' = [client EXCEPT !.uploadPending = TRUE, !.called = NoCall]
  /\ PageRoute(PageReq("upload", fetchHeader, 0), client.selectedFile,
               [present |-> TRUE, value |-> client.selectedCategory], 0, TRUE)

UploadSettled_retry ==
  /\ PageResponse("upload")
  /\ IF ResponseOk
     THEN /\ client' = [client EXCEPT !.uploadPending = FALSE,
                                      !.selectedFile = Null, !.selectedCategory = "other",
                                      !.called = [fn |-> "onUploadSuccess",
                                               message |-> "Document uploaded",
                                               invalidated |-> "/api/documents"]]
          /\ Received
     ELSE /\ client' = [client EXCEPT !.called = [fn |-> "onUploadError",
                                                  message |-> resp.message]]
          /\ PageRoute(PageReq("upload", fetchHeader, 0), client.selectedFile,
                       [present |-> TRUE, value |-> client.selectedCategory], 0, TRUE)

\* the mutation settles: onSuccess, or onError with error.message || "Upload failed"
UploadSettled ==
  /\ PageResponse("upload")
  /\ IF ResponseOk
     THEN client' = [client EXCEPT !.uploadPending = FALSE,
                                   !.selectedFile = Null, !.selectedCategory = "other",
                                   !.called = [fn |-> "onUploadSuccess",
                                               message |-> "Document uploaded",
                                               invalidated |-> "/api/documents"]]
     ELSE client' = [client EXCEPT !.uploadPending = FALSE,
                                   !.called = [fn |-> "onUploadError",
                                               message |-> IF resp.message # ""
                                                           THEN resp.message
                                                           ELSE "Upload failed"]]
  /\ Received

(* PDFPreviewDialog: the effect that loads the preview *)

\* a call of loadPDF for document id, at `await fetch(..)`: aborted is
\* controller.signal.aborted, at is the await it has reached ("fetch": the
\* request is on its way, "server": it has reached the server, "response":
\* the promise of fetch has settled, "blob": `await response.blob()`),
\* status the status of the response (0: none, or fetch rejected)
Load(id) == [id |-> id, aborted |-> FALSE, at |-> "fetch", status |-> 0]

\* URL.createObjectURL(blob) for the bytes of document id
ObjectUrl(id) == [blob |-> id]

Cleanup_without_abort(c) ==
  IF c.documentToPreview = Null
  THEN c
  ELSE [c EXCEPT !.objectUrls = @ \ {c.blobUrlRef},
                 !.blobUrlRef = Null]

\* the cleanup the effect returned when it last ran: none for the
\* `!open || !document` branch; controller.abort() and the revocation of
\* blobUrlRef.current otherwise
Cleanup(c) ==
  IF c.documentToPreview = Null
  THEN c
  ELSE [c EXCEPT !.loads = {[l EXCEPT !.aborted = TRUE] : l \in @},
                 !.objectUrls = @ \ {c.blobUrlRef},
                 !.blobUrlRef = Null]

\* the body of the effect, for the props of the render c
Effect(c) ==
  IF c.documentToPreview = Null
  THEN [c EXCEPT !.objectUrls = @ \ {c.blobUrlRef},
                 !.blobUrl = IF c.blobUrlRef # Null THEN Null ELSE @,
                 !.blobUrlRef = Null,
                 !.isLoading = FALSE]
  ELSE [c EXCEPT !.loads = @ \cup {Load(c.documentToPreview.id)},
                 !.isLoading = TRUE]

\* Home renders with state c and documentToPreview doc. It passes new
\* inline functions as onOpenChange and onError to PDFPreviewDialog, so the
\* dependency array [open, document?.id, onOpenChange, onError] differs
\* from the last one: the last cleanup runs, then the effect.
Render(c, doc) == Effect([Cleanup(c) EXCEPT !.documentToPreview = doc])

\* a handler of Home changes its state to c and documentToPreview to doc,
\* and Home renders; the calls of loadPDF that wait are bounded
HomeRenders(c, doc) ==
  /\ doc # Null => Cardinality(Cleanup(c).loads) < env.maxLoads
  /\ client' = Render(c, doc)

\* the list query fetches GET /api/documents
QueryDocuments(ok) ==
  /\ CanArrive
  /\ client' = [client EXCEPT !.called = NoCall]
  /\ PageRoute(PageReq("list", apiRequestHeader, 0), Null, NoCategory, 0, ok)

\* the list query settles: `documents` is its data
DocumentsSettled ==
  /\ PageResponse("list")
  /\ LET c == [client EXCEPT !.documents = IF ResponseOk THEN resp.body.documents ELSE @,
                             !.called = NoCall]
     IN IF c.documents # client.documents
        THEN client' = Render(c, client.documentToPreview)
        ELSE client' = c
  /\ Received

\* handleDeleteClick(doc), from a row of the table
HandleDeleteClick(doc) ==
  /\ PageOnly
  /\ client.documentToDelete = Null
  /\ HomeRenders([client EXCEPT !.documentToDelete = doc, !.called = NoCall],
                 client.documentToPreview)

\* onOpenChange(false) of the delete dialog: Cancel, Escape
CloseDeleteDialog ==
  /\ PageOnly
  /\ client.documentToDelete # Null
  /\ HomeRenders([client EXCEPT !.documentToDelete = Null, !.called = NoCall],
                 client.documentToPreview)

HandleConfirmDelete_any_document(ok) ==
  /\ CanArrive
  /\ ~client.deletePending
  /\ \E doc \in client.documents :
       /\ HomeRenders([client EXCEPT !.deletePending = TRUE, !.called = NoCall],
                      client.documentToPreview)
       /\ PageRoute(PageReq("delete", apiRequestHeader, doc.id), Null, NoCategory, doc.id, ok)

\* handleConfirmDelete: deleteMutation.mutate(documentToDelete.id) and the
\* apiRequest of its mutationFn
HandleConfirmDelete(ok) ==
  /\ CanArrive
  /\ client.documentToDelete # Null /\ ~client.deletePending
  /\ HomeRenders([client EXCEPT !.deletePending = TRUE, !.called = NoCall],
                 client.documentToPreview)
  /\ PageRoute(PageReq("delete", apiRequestHeader, client.documentToDelete.id),
               Null, NoCategory, client.documentToDelete.id, ok)

DeleteSettled_without_invalidate ==
  /\ PageResponse("delete")
  /\ IF ResponseOk
     THEN client' = Render([client EXCEPT !.deletePending = FALSE, !.documentToDelete = Null,
                                   !.called = [fn |-> "onSuccess",
                                               message |-> "Document deleted",
                                               invalidated |-> ""]],
                             client.documentToPreview)
     ELSE client' = Render([client EXCEPT !.deletePending = FALSE,
                                   !.called = [fn |-> "onError",
                                               message |-> IF resp.status = 401
                                                           THEN "Unauthorized" ELSE "Error",
                                               invalidated |-> ""]],
                             client.documentToPreview)
  /\ Received

\* the delete mutation settles: onSuccess (invalidateQueries, toast,
\* setDocumentToDelete(null)) or onError (toast)
DeleteSettled ==
  /\ PageResponse("delete")
  /\ IF ResponseOk
     THEN client' = Render([client EXCEPT !.deletePending = FALSE, !.documentToDelete = Null,
                                   !.called = [fn |-> "onSuccess",
                                               message |-> "Document deleted",
                                               invalidated |-> "/api/documents"]],
                             client.documentToPreview)
     ELSE client' = Render([client EXCEPT !.deletePending = FALSE,
                                   !.called = [fn |-> "onError",
                                               message |-> IF resp.status = 401
                                                           THEN "Unauthorized" ELSE "Error",
                                               invalidated |-> ""]],
                             client.documentToPreview)
  /\ Received

\* handlePreview(doc): setDocumentToPreview(doc)
HandlePreview(doc) ==
  /\ PageOnly
  /\ client.documentToPreview # doc
  /\ HomeRenders([client EXCEPT !.called = NoCall], doc)

\* onOpenChange(false) of the preview dialog: setDocumentToPreview(null)
ClosePreview ==
  /\ PageOnly
  /\ client.documentToPreview # Null
  /\ HomeRenders([client EXCEPT !.called = NoCall], Null)

\* the request of a fetch of loadPDF reaches the server; the browser
\* cancels the request of an aborted fetch that has not reached it
PreviewArrives(load, ok) ==
  /\ CanArrive
  /\ load.at = "fetch" /\ ~load.aborted
  /\ client' = [client EXCEPT !.loads = (@ \ {load}) \cup {[load EXCEPT !.at = "server"]},
                              !.called = NoCall]
  /\ PageRoute(PageReq("preview", fetchHeader, load.id), Null, NoCategory, load.id, ok)

\* the browser has the server's response: the promise of fetch settles
PreviewReceived(load) ==
  /\ PageResponse("preview")
  /\ load.at = "server" /\ load.id = resp.id
  /\ client' = [client EXCEPT !.loads = (@ \ {load}) \cup
                                          {[load EXCEPT !.at = "response",
                                                        !.status = resp.status]},
                              !.called = NoCall]
  /\ Received

\* the promise of fetch settles with a response of some status, or rejects
\* (status 0): whatever the server and the network do
FetchSettles(load, status) ==
  /\ PageOnly
  /\ load.at = "fetch"
  /\ client' = [client EXCEPT !.loads = (@ \ {load}) \cup
                                          {[load EXCEPT !.at = "response",
                                                        !.status = status]},
                              !.called = NoCall]

\* the `!response.ok` branch and the catch block of loadPDF, for a signal
\* that is not aborted: setIsLoading(false), onError(..), onOpenChange(false)
LoadFailed(load) ==
  LET c == [client EXCEPT !.loads = @ \ {load},
                          !.isLoading = FALSE,
                          !.called = [fn |-> "onError",
                                      message |-> "Unable to load the PDF preview. The file may be unavailable."]]
  IN IF client.documentToPreview = Null THEN client' = c ELSE HomeRenders(c, Null)

\* loadPDF after `await fetch(..)`: with the response, or with the
\* AbortError of a fetch aborted on its way
LoadPdfResumes(load) ==
  /\ PageOnly
  /\ load.at = "response" \/ (load.at = "fetch" /\ load.aborted)
  /\ IF load.aborted
     THEN client' = [client EXCEPT !.loads = @ \ {load}, !.called = NoCall]
     ELSE IF load.status < 200 \/ load.status > 299
     THEN LoadFailed(load)
     ELSE client' = [client EXCEPT !.loads = (@ \ {load}) \cup {[load EXCEPT !.at = "blob"]},
                                   !.called = NoCall]

\* loadPDF after `await response.blob()`: the blob URL, or the catch block
BlobSettles(load, ok) ==
  /\ PageOnly
  /\ load.at = "blob"
  /\ IF load.aborted
     THEN client' = [client EXCEPT !.loads = @ \ {load}, !.called = NoCall]
     ELSE IF ~ok
     THEN LoadFailed(load)
     ELSE client' = [client EXCEPT !.loads = @ \ {load},
                                   !.objectUrls = @ \cup {ObjectUrl(load.id)},
                                   !.blobUrlRef = ObjectUrl(load.id),
                                   !.blobUrl = ObjectUrl(load.id),
                                   !.isLoading = FALSE,
                                   !.called = NoCall]

\* handleDownload(doc): the click on a link to /api/documents/:id/download
HandleDownload(doc, ok) ==
  /\ CanArrive
  /\ client' = [client EXCEPT !.called = NoCall]
  /\ PageRoute(PageReq("download", fetchHeader, doc.id), Null, NoCategory, doc.id, ok)

\* the browser takes the response to the link
DownloadSettled ==
  /\ PageResponse("download")
  /\ client' = [client EXCEPT !.called = [fn |-> "download", message |-> resp.message]]
  /\ Received


(* ------------------- the Home page: search and filter ------------------ *)

\* String.prototype.includes
includes(s, t) ==
  \E i \in 0..(Len(s) - Len(t)) : SubSeq(s, i + 1, i + Len(t)) = t

filteredDocuments_case_sensitive(documentList, searchQuery, categoryFilter) ==
  LET matchesSearch(doc) ==
        searchQuery = <<>> \/ includes(doc.originalFilename, searchQuery)
      matchesCategory(doc) == categoryFilter = "all" \/ doc.category = categoryFilter
      keep(doc) == matchesSearch(doc) /\ matchesCategory(doc)
  IN SelectSeq(documentList, keep)

\* filteredDocuments: documents.filter(..) of the useMemo
filteredDocuments(documentList, searchQuery, categoryFilter) ==
  LET matchesSearch(doc) ==
        \/ searchQuery = <<>>
        \/ includes(toLowerCase(doc.originalFilename), toLowerCase(searchQuery))
      matchesCategory(doc) == categoryFilter = "all" \/ doc.category = categoryFilter
      keep(doc) == matchesSearch(doc) /\ matchesCategory(doc)
  IN SelectSeq(documentList, keep)

\* the text of text-document-count without its parentheses: the number
\* displayed, and " of <total>" as the field `of` (0 when it is not shown;
\* it is shown only for a different number, so never for a total of 0)
textDocumentCount(filtered, documentList) ==
  [n |-> Len(filtered),
   of |-> IF Len(filtered) # Len(documentList) THEN Len(documentList) ELSE 0]

\* onChange of the search input
SetSearchQuery(q) ==
  /\ PageOnly
  /\ q # client.searchQuery
  /\ HomeRenders([client EXCEPT !.searchQuery = q, !.called = NoCall],
                 client.documentToPreview)

\* onValueChange of the category select
SetCategoryFilter(value) ==
  /\ PageOnly
  /\ value # client.categoryFilter
  /\ HomeRenders([client EXCEPT !.categoryFilter = value, !.called = NoCall],
                 client.documentToPreview)

(* ---------------------------- specification ---------------------------- *)

Next ==
  \/ \E email \in Emails, password \in SignupPasswords, ok \in BOOLEAN : Signup(email, password, ok)
  \/ \E r \in InFlight, ok \in BOOLEAN : UpsertUser(r, ok)
  \/ \E email \in Emails, password \in Passwords, ok \in BOOLEAN : Login(email, password, ok)
  \/ Logout
  \/ \E header \in Headers : AuthUserRoute(header)
  \/ \E header \in Headers : ListRoute(header)
  \/ \E header \in Headers : UploadRoute(header)
  \/ \E r \in InFlight, ok \in BOOLEAN : UploadBuffer(r, ok)
  \/ \E r \in InFlight, ok \in BOOLEAN : UploadGetObjectEntityFile(r, ok)
  \/ \E r \in InFlight, ok \in BOOLEAN : SetObjectAclPolicy(r, ok)
  \/ \E r \in InFlight, ok \in BOOLEAN : CreateDocument(r, ok)
  \/ \E header \in Headers : DownloadRoute(header)
  \/ \E header \in Headers : PreviewRoute(header)
  \/ \E header \in Headers : DeleteRoute(header)
  \/ \E r \in InFlight, ok \in BOOLEAN : GetObjectEntityFile(r, ok)
  \/ \E r \in InFlight, ok \in BOOLEAN : Stream(r, ok)
  \/ \E r \in InFlight, ok \in BOOLEAN : DeleteObject(r, ok)
  \/ \E r \in InFlight, ok \in BOOLEAN : DeleteDocument(r, ok)
  \/ Deliver

\* concurrent requests
Spec == Init /\ [][Next]_vars

\* every upload form, one request at a time
SpecUpload == InitUpload /\ [][Next]_vars

\* the steps of the Home page, of the requests it sends, and of the REST
\* requests that sign users up and upload their documents
NextPage ==
  \/ \E email \in env.emails, ok \in BOOLEAN : Signup(email, "pw1", ok)
  \/ \E r \in InFlight, ok \in BOOLEAN : UpsertUser(r, ok)
  \/ \E header \in Headers : UploadRoute(header)
  \/ \E r \in InFlight, ok \in BOOLEAN : UploadBuffer(r, ok)
  \/ \E r \in InFlight, ok \in BOOLEAN : UploadGetObjectEntityFile(r, ok)
  \/ \E r \in InFlight, ok \in BOOLEAN : SetObjectAclPolicy(r, ok)
  \/ \E r \in InFlight, ok \in BOOLEAN : CreateDocument(r, ok)
  \/ \E r \in InFlight, ok \in BOOLEAN : DeleteObject(r, ok)
  \/ \E r \in InFlight, ok \in BOOLEAN : DeleteDocument(r, ok)
  \/ Deliver
  \/ \E token \in tokens : PageLogin(token)
  \/ \E file \in env.picks : HandleFileSelect(file)
  \/ \E category \in {"other", "referral"} : SetSelectedCategory(category)
  \/ HandleClearFile
  \/ HandleUpload
  \/ UploadSettled
  \/ \E ok \in BOOLEAN : QueryDocuments(ok)
  \/ DocumentsSettled
  \/ \E doc \in client.documents : HandleDeleteClick(doc)
  \/ CloseDeleteDialog
  \/ \E ok \in BOOLEAN : HandleConfirmDelete(ok)
  \/ DeleteSettled
  \/ \E doc \in client.documents : HandlePreview(doc)
  \/ ClosePreview
  \/ \E load \in client.loads, ok \in BOOLEAN : PreviewArrives(load, ok)
  \/ \E load \in client.loads : PreviewReceived(load)
  \/ \E load \in client.loads : LoadPdfResumes(load)
  \/ \E doc \in client.documents, ok \in BOOLEAN : HandleDownload(doc, ok)
  \/ DownloadSettled

\* the Home page in one browser
SpecPage == InitPage /\ [][NextPage]_vars

\* the preview dialog of a Home page that lists two documents, whatever
\* the server and the network answer to its fetch
InitPreview ==
  /\ ServerStarted /\ env = PreviewClients
  /\ client = [Mounted EXCEPT !.documents = {d \in ListedDocuments : d.id <= 2}]

NextPreview ==
  \/ \E doc \in client.documents : HandlePreview(doc)
  \/ ClosePreview
  \/ \E doc \in client.documents : HandleDeleteClick(doc)
  \/ CloseDeleteDialog
  \/ \E load \in client.loads, status \in {200, 404, 0} : FetchSettles(load, status)
  \/ \E load \in client.loads : LoadPdfResumes(load)
  \/ \E load \in client.loads, ok \in BOOLEAN : BlobSettles(load, ok)

SpecPreview == InitPreview /\ [][NextPreview]_vars

\* the Home page over a fetched list: the user searches and filters
NextList ==
  \/ \E q \in SearchQueries : SetSearchQuery(q)
  \/ \E value \in {"all"} \cup documentCategories : SetCategoryFilter(value)

SpecList == InitList /\ [][NextList]_vars

(* ------------------------------ properties ----------------------------- *)

\* the header carries a token this server issued, unexpired, as a Bearer token
Issued(header) == header.scheme = "Bearer " /\ header.token \in tokens

\* the user a request or response x is authenticated as
Caller(x) == x.header.token.userId

\* request r, in flight, takes the step
Stepped(r) == CopiesIn(r, reqs') < CopiesIn(r, reqs)

\* the routes registered with isAuthenticated
AuthKinds == {"authUser", "list", "upload", "download", "preview", "delete"}

\* C1: a download or preview sends the bytes of a document only to its
\* owner: a request in flight past the ownership check, and every response
\* carrying file bytes, belongs to the user who owns the document and the
\* bytes are those of the document's object; a request for an existing
\* document of another user is answered 403 "Access denied" without any
\* access to the object store.
C1_DownloadRequiresOwnership ==
  /\ \A r \in InFlight :
       r.kind \in {"download", "preview"} => r.doc # Null /\ r.doc.userId = Caller(r)
  /\ (resp.kind \in {"download", "preview"} /\ resp.body.type = "pdf") =>
       /\ resp.status = 200
       /\ resp.doc # Null /\ resp.doc.userId = Caller(resp)
       /\ resp.body.from = resp.doc.filepath
       /\ resp.doc.filepath \in DOMAIN objects
       /\ resp.body.bytes = objects[resp.doc.filepath].bytes
  /\ (resp.kind \in {"download", "preview"} /\ resp.doc # Null
        /\ resp.doc.userId # Caller(resp)) =>
       /\ resp.status = 403 /\ resp.message = "Access denied"
       /\ resp.body = NoBody
       /\ ~resp.readStore

C1_Witness ==
  /\ resp.kind = "download" /\ resp.status = 403
  /\ resp.id \in DOMAIN documents
  /\ documents[resp.id].userId # Caller(resp)
  /\ Caller(resp) \in DOMAIN users

\* C2: a DELETE of an existing document by a user who is not its owner is
\* answered 403 "Access denied" by a step that changes neither the Document
\* table nor the object store, and the request is not left in flight.
C2_DeleteByNonOwner ==
  [][(resp'.kind = "delete" /\ resp'.doc # Null /\ resp'.doc.userId # Caller(resp')) =>
       /\ resp'.status = 403 /\ resp'.message = "Access denied"
       /\ documents' = documents /\ objects' = objects
       /\ resp'.id \in DOMAIN documents' /\ documents'[resp'.id] = resp'.doc
       /\ reqs' = reqs
       /\ ~resp'.wroteDb /\ ~resp'.wroteStore]_vars

C2_Witness ==
  /\ resp.kind = "delete" /\ resp.status = 403
  /\ resp.id \in DOMAIN documents
  /\ documents[resp.id].userId # Caller(resp)
  /\ documents[resp.id].filepath \in DOMAIN objects

\* the Document rows of user u
RowsOf(u) == {documents[d] : d \in {e \in DOMAIN documents : documents[e].userId = u}}

\* C3: the list GET /api/documents returns to user u is exactly the set of
\* Document rows whose userId is u, and the rows of u change only in the
\* last step of an upload or delete request authenticated as u.
C3_ListPerOwner ==
  /\ [](resp.kind = "list" /\ resp.status = 200 =>
          /\ resp.body.documents = RowsOf(Caller(resp))
          /\ \A row \in resp.body.documents : row.userId = Caller(resp))
  /\ [][\A u \in 1..MaxUsers :
          RowsOf(u)' # RowsOf(u) =>
            \E r \in InFlight :
              /\ Stepped(r) /\ r.kind \in {"upload", "delete"}
              /\ Caller(r) = u]_vars

C3_Witness ==
  /\ resp.kind = "list" /\ resp.status = 200
  /\ resp.body.documents # {}
  /\ \E d \in DOMAIN documents : documents[d].userId # Caller(resp)

\* C4: once a DELETE was answered 200 "Document deleted successfully", the
\* Document row with that id and the object at its filepath do not exist,
\* then and ever after; the request was the owner's; and no step of a DELETE
\* request changes the row or the object of any other document.
C4_DeleteRemovesBoth ==
  /\ [](/\ \A d \in deleted : d.id \notin DOMAIN documents /\ d.filepath \notin DOMAIN objects
        /\ (resp.kind = "delete" /\ resp.status = 200) =>
             /\ resp.message = "Document deleted successfully"
             /\ [id |-> resp.id, filepath |-> resp.doc.filepath] \in deleted
             /\ resp.doc.userId = Caller(resp))
  /\ [][\A r \in InFlight :
          (r.kind = "delete" /\ Stepped(r)) =>
            /\ \A d \in DOMAIN documents \ {r.id} :
                 d \in DOMAIN documents' /\ documents'[d] = documents[d]
            /\ \A p \in DOMAIN objects \ {r.doc.filepath} :
                 p \in DOMAIN objects' /\ objects'[p] = objects[p]
            /\ DOMAIN documents' \subseteq DOMAIN documents
            /\ DOMAIN objects' \subseteq DOMAIN objects]_vars

C4_Witness ==
  /\ resp.kind = "delete" /\ resp.status = 200
  /\ resp.id \notin DOMAIN documents
  /\ resp.doc.filepath \notin DOMAIN objects
  /\ \E d \in DOMAIN documents : documents[d].filepath \in DOMAIN objects

\* the name ends in ".pdf", in any letter case, after a non-empty stem
HasPdfExtension(name) ==
  /\ Len(name) > 4
  /\ name[Len(name) - 3] = "."
  /\ name[Len(name) - 2] \in {"p", "P"}
  /\ name[Len(name) - 1] \in {"d", "D"}
  /\ name[Len(name)] \in {"f", "F"}

IsPdfFile(file) == file.mimetype = "application/pdf" /\ HasPdfExtension(file.originalname)

\* C5: an upload is carried on past the multipart parser, stores an object
\* or creates a row only for a file of MIME type application/pdf whose name
\* has the extension .pdf in any letter case; any other file is answered 400
\* "Only PDF files are allowed" by a step that changes neither the Document
\* table nor the object store.
C5_UploadAcceptsOnlyPdf ==
  /\ [](/\ \A r \in InFlight : r.kind = "upload" => IsPdfFile(r.file)
        /\ \A d \in DOMAIN documents :
             /\ HasPdfExtension(documents[d].originalFilename)
             /\ documents[d].mimetype = "application/pdf"
        /\ (resp.kind = "upload" /\ (resp.wroteDb \/ resp.wroteStore)) => IsPdfFile(resp.file)
        /\ (resp.kind = "upload" /\ resp.file # Null /\ ~IsPdfFile(resp.file)) =>
             /\ resp.status = 400 /\ resp.message = "Only PDF files are allowed"
             /\ ~resp.wroteDb /\ ~resp.wroteStore)
  /\ [][(resp'.kind = "upload" /\ resp'.status = 400) =>
          documents' = documents /\ objects' = objects /\ reqs' = reqs]_vars

C5_Witness ==
  /\ resp.kind = "upload" /\ resp.status = 400
  /\ resp.message = "Only PDF files are allowed"
  /\ resp.file.mimetype = "application/pdf"
  /\ \E d \in DOMAIN documents : documents[d].originalFilename = Name_a_PDF

C7_DocumentUserExists ==
  \A d \in DOMAIN documents : documents[d].userId \in DOMAIN users

C7_Witness ==
  /\ Cardinality(DOMAIN users) = 2
  /\ \E d, e \in DOMAIN documents : documents[d].userId # documents[e].userId

\* C8: a Document row, once created, keeps every field until it is removed,
\* and it is removed only by the step of a DELETE of that id that answers
\* 200; while a row exists, its backing object is changed or removed only by
\* a step of a DELETE request for that row's id.
C8_DocumentsImmutable ==
  [][/\ \A d \in DOMAIN documents \cap DOMAIN documents' : documents'[d] = documents[d]
     /\ \A d \in DOMAIN documents \ DOMAIN documents' :
          resp'.kind = "delete" /\ resp'.id = d /\ resp'.status = 200
     /\ \A d \in DOMAIN documents :
          LET p == documents[d].filepath
          IN (p \in DOMAIN objects /\ (p \notin DOMAIN objects' \/ objects'[p] # objects[p])) =>
               \E r \in InFlight : r.kind = "delete" /\ r.id = d /\ Stepped(r)]_vars

C8_Witness ==
  /\ resp.kind = "upload" /\ resp.status = 201
  /\ \E d \in DOMAIN documents :
       /\ d # resp.doc.id /\ documents[d].userId # resp.doc.userId
       /\ documents[d].filepath \in DOMAIN objects

\* the ACL the upload handler sets for a document of user u
PrivateAcl(u) == [owner |-> u, visibility |-> "private"]

\* C9: the step that inserts a Document row is the last step of an upload
\* answered 201, and before it the object at the row's filepath already
\* held the uploaded bytes and the owner's private ACL; an upload whose
\* store write or ACL step failed is answered 500 "Failed to upload
\* document" and has created no row.
C9_RowAfterStore ==
  /\ [][\A d \in DOMAIN documents' \ DOMAIN documents :
          LET row == documents'[d]
          IN /\ resp'.kind = "upload" /\ resp'.status = 201 /\ resp'.doc = row
             /\ row.filepath \in DOMAIN objects
             /\ objects[row.filepath].bytes = resp'.file.buffer
             /\ objects[row.filepath].acl = PrivateAcl(row.userId)]_vars
  /\ [](LET path == objectPathOf(resp.objectId)
        IN (/\ resp.kind = "upload" /\ resp.objectId > 0
            /\ (path \notin DOMAIN objects \/ objects[path].acl = Null)) =>
             /\ resp.status = 500 /\ resp.message = "Failed to upload document"
             /\ ~resp.wroteDb
             /\ \A d \in DOMAIN documents : documents[d].filepath # path)

C9_Witness ==
  /\ resp.kind = "upload" /\ resp.status = 500
  /\ objectPathOf(resp.objectId) \in DOMAIN objects
  /\ objects[objectPathOf(resp.objectId)].acl = Null
  /\ documents # <<>>

\* C10: every Document row's category is one of prescription, test_result,
\* referral, other, whatever the request body carried, and an upload with no
\* category field is stored as "other".
C10_CategoryIsEnum ==
  /\ \A d \in DOMAIN documents : documents[d].category \in documentCategories
  /\ (resp.kind = "upload" /\ resp.status = 201 /\ resp.category = NoCategory) =>
       resp.doc.category = "other"

\* the page's user is signed in: the page holds an unexpired token this
\* server issued
LoggedIn == client.token # Null /\ client.token \in tokens /\ verifyToken(client.token) # Null

\* C11: for a signed-in user, the upload request of UploadZone, the preview
\* request of PDFPreviewDialog and the download request of handleDownload
\* pass isAuthenticated: none of them is answered 401, and the handler runs
\* as the user of the page.
C11_PageRequestsAuthenticated ==
  (/\ resp.origin = "page" /\ resp.kind \in {"upload", "preview", "download"}
   /\ LoggedIn) =>
     /\ resp.status # 401
     /\ resp.userId = client.token.userId

\* an upload whose file part was parsed and is larger than the limit
Oversized(x) == x.kind = "upload" /\ x.file # Null /\ x.file.size > fileSize

C13_ClientValidation ==
  /\ [](client.selectedFile # Null =>
          /\ client.selectedFile.mimetype = "application/pdf"
          /\ client.selectedFile.size < 10 * 1024 * 1024)
  /\ [][(client'.called.fn = "onUploadError" /\ ~client.uploadPending) =>
          /\ client'.called.message \in {"Only PDF files are allowed",
                                          "File size must be less than 10MB"}
          /\ client'.selectedFile = client.selectedFile]_vars

\* the step is the arrival of a request that is answered at once
AnsweredAtOnce == resp = NoResponse /\ resp' # NoResponse /\ reqs' = reqs

\* C14: an authenticated download, preview or delete request whose id names
\* no Document row is answered 404 "Document not found" (500 with the
\* route's failure message when the lookup itself throws) by a step that
\* changes neither the Document table nor the object store and reads nothing
\* from the store; "Document not found" is sent for no other request, and a
\* request that is carried on past the lookup has found its row.
C14_NotFound ==
  /\ [][(/\ AnsweredAtOnce
          /\ resp'.kind \in {"download", "preview", "delete"}
          /\ resp'.status # 401
          /\ resp'.id \notin DOMAIN documents) =>
            /\ resp'.status \in {404, 500}
            /\ resp'.status = 404 => resp'.message = "Document not found"
            /\ resp'.status = 500 => resp'.message = failureMessage(resp'.kind)
            /\ documents' = documents /\ objects' = objects
            /\ ~resp'.wroteDb /\ ~resp'.wroteStore /\ ~resp'.readStore]_vars
  /\ [](/\ resp.message = "Document not found" =>
             /\ resp.status = 404 /\ resp.kind \in {"download", "preview", "delete"}
             /\ resp.id \notin DOMAIN documents /\ resp.doc = Null
        /\ \A r \in InFlight :
             r.kind \in {"download", "preview", "delete"} => r.doc # Null)

C14_Witness ==
  /\ resp.kind = "delete" /\ resp.status = 404
  /\ resp.message = "Document not found"
  /\ resp.id \notin DOMAIN documents
  /\ \E d \in DOMAIN documents : documents[d].userId = resp.userId

\* the step sends a request of the page on route `kind` for document id: it
\* is answered at once or its handler reaches the first await at pc
PageSends(kind, pc, id) ==
  /\ resp = NoResponse
  /\ \/ /\ resp' # NoResponse /\ reqs' = reqs
        /\ resp'.origin = "page" /\ resp'.kind = kind /\ resp'.id = id
     \/ \E r \in BagToSet(reqs') :
          /\ r.origin = "page" /\ r.kind = kind /\ r.id = id /\ r.pc = pc
          /\ CopiesIn(r, reqs') > CopiesIn(r, reqs)

\* C15: the page sends a DELETE request for document d only in a step taken
\* while d is the documentToDelete (the confirmation dialog is open for d)
\* and no delete is pending; documentToDelete becomes d only by a click on
\* a row of the table while no dialog is open; and a step that closes the
\* dialog clears documentToDelete without sending a request or changing the
\* Document table or the object store.
C15_DeleteRequiresConfirmation ==
  /\ [][\A id \in ParamIds :
          PageSends("delete", "deleteObject", id) =>
            /\ client.documentToDelete # Null
            /\ client.documentToDelete.id = id
            /\ ~client.deletePending]_vars
  /\ [][(client'.documentToDelete # client.documentToDelete
           /\ client'.documentToDelete # Null) =>
          /\ client.documentToDelete = Null
          /\ client'.documentToDelete \in client.documents
          /\ reqs' = reqs /\ resp' = resp]_vars
  /\ [][(client.documentToDelete # Null /\ client'.documentToDelete = Null
           /\ resp = NoResponse) =>
          /\ reqs' = reqs /\ resp' = NoResponse
          /\ documents' = documents /\ objects' = objects]_vars

C15_Witness ==
  /\ resp.origin = "page" /\ resp.kind = "delete" /\ resp.status = 200
  /\ client.documentToDelete # Null /\ client.documentToDelete.id = resp.id
  /\ resp.id \notin DOMAIN documents
  /\ documents # <<>>

\* the step sends an upload request of the page
PageSendsUpload ==
  \/ /\ resp' # NoResponse /\ resp' # resp /\ reqs' = reqs
     /\ resp'.origin = "page" /\ resp'.kind = "upload"
  \/ \E r \in BagToSet(reqs') :
       /\ r.origin = "page" /\ r.kind = "upload" /\ r.pc = "uploadBuffer"
       /\ CopiesIn(r, reqs') > CopiesIn(r, reqs)

\* the response in `resp` tells the page that its upload failed
UploadFailed == PageResponse("upload") /\ ~ResponseOk

\* C16: the page sends an upload request only in a step that takes the
\* mutation from idle to pending with a file selected (the click on Upload
\* PDF), carrying that file and the selected category; the step that takes
\* a failure response calls onUploadError with the server's message, ends
\* the pending state, keeps the selected file and category and sends
\* nothing; and the mutation calls onUploadError for nothing else.
C16_NoRetry ==
  /\ [][PageSendsUpload =>
          /\ ~client.uploadPending /\ client'.uploadPending
          /\ client.selectedFile # Null
          /\ resp = NoResponse]_vars
  /\ [][UploadFailed =>
          /\ client'.called = [fn |-> "onUploadError", message |-> resp.message]
          /\ ~client'.uploadPending
          /\ client'.selectedFile = client.selectedFile
          /\ client'.selectedCategory = client.selectedCategory
          /\ resp' = NoResponse /\ reqs' = reqs]_vars
  /\ [][(client'.called.fn = "onUploadError" /\ client.uploadPending) => UploadFailed]_vars
  /\ [](client.uploadPending => client.selectedFile # Null)

C16_Witness ==
  /\ client.called = [fn |-> "onUploadError", message |-> "Unauthorized"]
  /\ ~client.uploadPending
  /\ client.selectedFile # Null /\ client.selectedCategory = "referral"
  /\ LoggedIn
  /\ resp = NoResponse

\* no request is in progress
Quiescent == reqs = EmptyBag

\* C17: whenever no request is in progress, the filepath of every Document
\* row names an object that exists in the object store, also after an
\* upload or a DELETE that was answered 500.
C17_RecordHasObject ==
  Quiescent => \A d \in DOMAIN documents : documents[d].filepath \in DOMAIN objects

\* C18: whenever no request is in progress, every object of the store is
\* the backing object of a Document row, also after an upload that was
\* answered 500 once its bytes had been written.
C18_NoOrphanObjects ==
  Quiescent =>
    \A p \in DOMAIN objects : \E d \in DOMAIN documents : documents[d].filepath = p

\* C19: no two Document rows share a filepath, and the filepath of a row is
\* uploads/<objectId>.pdf of the objectId drawn for its upload whatever the
\* original filename; the objectId of an upload in flight is the path of no
\* row and of no other upload; the step of an upload that writes the bytes
\* writes to a path that held no object and changes no other object; and no
\* step of a DELETE removes or changes the object of a row other than its own.
C19_UniqueFilepaths ==
  /\ [](/\ \A d, e \in DOMAIN documents :
             d # e => documents[d].filepath # documents[e].filepath
        /\ \A r \in InFlight : r.kind = "upload" =>
             /\ \A d \in DOMAIN documents : documents[d].filepath # objectPathOf(r.objectId)
             /\ \A q \in InFlight :
                  (q.kind = "upload" /\ q.objectId = r.objectId) => q = r
             /\ CopiesIn(r, reqs) = 1
        /\ (resp.kind = "upload" /\ resp.status = 201) =>
             resp.doc.filepath = objectPathOf(resp.objectId))
  /\ [][\A r \in InFlight :
          (Stepped(r) /\ r.kind = "upload" /\ r.pc = "uploadBuffer") =>
            /\ objectPathOf(r.objectId) \notin DOMAIN objects
            /\ \A p \in DOMAIN objects : p \in DOMAIN objects' /\ objects'[p] = objects[p]]_vars
  /\ [][\A r \in InFlight :
          (Stepped(r) /\ r.kind = "delete") =>
            \A d \in DOMAIN documents \ {r.id} :
              LET p == documents[d].filepath
              IN p \in DOMAIN objects => p \in DOMAIN objects' /\ objects'[p] = objects[p]]_vars

C19_Witness ==
  /\ resp.kind = "delete" /\ resp.status = 200
  /\ \E d \in DOMAIN documents :
       /\ documents[d].originalFilename = resp.doc.originalFilename
       /\ documents[d].userId = resp.doc.userId
       /\ documents[d].filepath # resp.doc.filepath
       /\ documents[d].filepath \in DOMAIN objects

\* C20: the object backing a Document row carries the ACL policy with the
\* row's userId as owner and visibility private for as long as row and
\* object exist; an upload that has reached createDocument has set that
\* policy on its object; and the step that inserts a row finds the policy
\* already set and leaves the object store as it is.
C20_AclPrivateOwner ==
  /\ [](/\ \A d \in DOMAIN documents :
             LET p == documents[d].filepath
             IN p \in DOMAIN objects =>
                  /\ objects[p].acl # Null
                  /\ objects[p].acl.owner = documents[d].userId
                  /\ objects[p].acl.visibility = "private"
        /\ \A r \in InFlight :
             (r.kind = "upload" /\ r.pc = "createDocument") =>
               /\ objectPathOf(r.objectId) \in DOMAIN objects
               /\ objects[objectPathOf(r.objectId)].acl =
                    [owner |-> r.userId, visibility |-> "private"])
  /\ [][\A d \in DOMAIN documents' \ DOMAIN documents :
          LET p == documents'[d].filepath
          IN /\ p \in DOMAIN objects
             /\ objects[p].acl = [owner |-> documents'[d].userId, visibility |-> "private"]
             /\ objects' = objects]_vars

C20_Witness ==
  \E d, e \in DOMAIN documents :
    /\ documents[d].userId # documents[e].userId
    /\ documents[d].filepath \in DOMAIN objects
    /\ documents[e].filepath \in DOMAIN objects
    /\ objects[documents[d].filepath].acl.owner = documents[d].userId
    /\ objects[documents[e].filepath].acl.owner = documents[e].userId
    /\ reqs = EmptyBag

C22_ObjectBeforeRow ==
  [][\A r \in InFlight :
       (r.kind = "delete" /\ Stepped(r)) =>
         /\ (r.pc = "deleteObject" /\ resp' # NoResponse) =>
              /\ resp'.status = 500
              /\ resp'.message = "Failed to delete document"
              /\ documents' = documents /\ objects' = objects
         /\ r.pc = "deleteObject" => documents' = documents
         /\ documents' # documents =>
              /\ r.pc = "deleteDocument"
              /\ documents[r.id].filepath \notin DOMAIN objects
              /\ documents' = Remove(documents, r.id)]_vars

C22_Witness ==
  /\ resp.kind = "delete" /\ resp.status = 500
  /\ resp.message = "Failed to delete document"
  /\ resp.id \in DOMAIN documents
  /\ documents[resp.id] = resp.doc
  /\ resp.doc.filepath \in DOMAIN objects
  /\ ~resp.wroteStore /\ ~resp.wroteDb

\* C23: a download or preview request of the owner that looks up the
\* backing object when the store has no object at the row's filepath (also
\* when a DELETE removed it after the ownership check) is answered 404
\* "File not found on server" (500 with the route's failure message when
\* the store call itself fails) with no file bytes, by a step that changes
\* no table and no object; "File not found on server" is sent for no other
\* request.
C23_ObjectAbsent ==
  /\ [][\A r \in InFlight :
          (/\ r.kind \in {"download", "preview"}
           /\ Stepped(r)
           /\ r.pc = "getObjectEntityFile"
           /\ r.doc.filepath \notin DOMAIN objects) =>
             /\ resp'.status \in {404, 500}
             /\ resp'.status = 404 => resp'.message = "File not found on server"
             /\ resp'.status = 500 => resp'.message = failureMessage(r.kind)
             /\ resp'.body = NoBody
             /\ UNCHANGED <<users, documents, objects, tokens, deleted,
                            nextUserId, nextDocId, nextObjectId>>]_vars
  /\ [](resp.message = "File not found on server" =>
          /\ resp.status = 404 /\ resp.kind \in {"download", "preview"}
          /\ resp.body = NoBody
          /\ resp.doc.userId = Caller(resp)
          /\ resp.doc.filepath \notin DOMAIN objects)

C23_Witness ==
  /\ resp.kind \in {"download", "preview"} /\ resp.status = 404
  /\ resp.message = "File not found on server"
  /\ resp.id \in DOMAIN documents
  /\ \E r \in InFlight :
       r.kind = "delete" /\ r.id = resp.id /\ r.pc = "deleteDocument" /\ r.wroteStore

\* C26: no response body of /api/signup, /api/login or /api/auth/user holds
\* a user's password hash.
C26_NoPasswordHashInBody ==
  (resp.kind \in {"signup", "login", "authUser"} /\ resp.body.type \in {"session", "user"}) =>
    \/ resp.body.user = Null
    \/ "passwordHash" \notin DOMAIN resp.body.user

\* C27: no two User rows share an email and no step changes or removes a
\* User row; a signup request whose email belongs to a user when the
\* request is answered is answered 400 "User already exists" (500 "Signup
\* failed" when the lookup itself throws), also when the row was inserted
\* by another signup while the request was in progress.
C27_SignupExistingEmail ==
  /\ [](\A u1, u2 \in DOMAIN users : users[u1].email = users[u2].email => u1 = u2)
  /\ [][/\ \A u \in DOMAIN users : u \in DOMAIN users' /\ users'[u] = users[u]
        /\ (/\ resp = NoResponse /\ resp'.kind = "signup"
             /\ resp'.email # "" /\ resp'.password # ""
             /\ getUserByEmail(resp'.email) # Null) =>
               /\ users' = users
               /\ \/ resp'.status = 400 /\ resp'.message = "User already exists"
                  \/ AnsweredAtOnce /\ resp'.status = 500 /\ resp'.message = "Signup failed"]_vars

\* C30: a file that passes UploadZone.validateFile passes the server's
\* fileFilter and size limit: an upload of such a file whose request is
\* authenticated is not answered 400 for its file.
C30_ClientValidImpliesAccepted ==
  (/\ resp.kind = "upload" /\ resp.file # Null
   /\ Issued(resp.header)
   /\ validateFile(resp.file) = "") =>
     /\ multerError(resp.file) = Null
     /\ ~(/\ resp.status = 400
          /\ resp.message \in {"Only PDF files are allowed",
                                "File size must be less than 10MB"})

\* document doc matches the search text q (its
\* name holds q at some offset, letter case apart) and the category filter
Matches(doc, q, filter) ==
  /\ \/ q = <<>>
     \/ \E off \in 0..(Len(doc.originalFilename) - Len(q)) :
          \A j \in 1..Len(q) :
            LowerChar(doc.originalFilename[off + j]) = LowerChar(q[j])
  /\ filter = "all" \/ doc.category = filter

\* C24: the displayed list holds exactly the documents of the fetched list
\* whose originalFilename contains the search text case-insensitively
\* (every document for the empty text) and whose category is the selected
\* one (every category for "all"), in the order of the fetched list; the
\* counter shows "n of m" exactly when the number displayed differs from
\* the total m, and n is the number displayed.
C24_SearchAndFilter ==
  LET fetched == client.documents
      shown == filteredDocuments(fetched, client.searchQuery, client.categoryFilter)
      count == textDocumentCount(shown, fetched)
      pos(doc) == CHOOSE i \in 1..Len(fetched) : fetched[i] = doc
  IN /\ \A i \in 1..Len(shown) :
          /\ \E k \in 1..Len(fetched) : fetched[k] = shown[i]
          /\ Matches(shown[i], client.searchQuery, client.categoryFilter)
     /\ \A k \in 1..Len(fetched) :
          Matches(fetched[k], client.searchQuery, client.categoryFilter) =>
            \E i \in 1..Len(shown) : shown[i] = fetched[k]
     /\ \A i, j \in 1..Len(shown) : i < j => pos(shown[i]) < pos(shown[j])
     /\ count.n = Len(shown)
     /\ count.of # 0 <=> Len(shown) # Len(fetched)
     /\ count.of # 0 => count.of = Len(fetched)

C24_Witness ==
  LET shown == filteredDocuments(client.documents, client.searchQuery, client.categoryFilter)
  IN /\ client.searchQuery # <<>>
     /\ toLowerCase(client.searchQuery) # client.searchQuery
     /\ client.categoryFilter # "all"
     /\ Len(shown) = 2 /\ Len(client.documents) = 3
     /\ shown[1].originalFilename # shown[2].originalFilename
     /\ textDocumentCount(shown, client.documents) = [n |-> 2, of |-> 3]

\* the step made the page call queryClient.invalidateQueries on the list
Invalidated ==
  /\ client' # client
  /\ "invalidated" \in DOMAIN client'.called
  /\ client'.called.invalidated = "/api/documents"

C28_OnePreviewRequest ==
  [][(/\ client.documentToPreview # Null
      /\ client'.documentToPreview = client.documentToPreview) =>
        /\ \A l \in client'.loads \ client.loads : l.aborted \/ l.at # "fetch"
        /\ \A l \in client.loads :
             ~l.aborted => [l EXCEPT !.aborted = TRUE] \notin client'.loads \ client.loads
        /\ client.objectUrls \subseteq client'.objectUrls]_vars

\* C29: a call of loadPDF is aborted once the dialog is closed or shows
\* another document, and at most one call is not aborted; the step in
\* which the fetch or the blob of an aborted call settles, or in which the
\* call goes on after it, changes neither blobUrl nor isLoading nor
\* documentToPreview, calls no callback and creates no blob URL; and while
\* the dialog is closed no blob URL that was created is unrevoked (at any
\* time the only unrevoked one is blobUrlRef.current).
C29_StaleResponseIgnored ==
  /\ [](/\ \A l \in client.loads :
             ~l.aborted =>
               /\ client.documentToPreview # Null
               /\ client.documentToPreview.id = l.id
               /\ \A l2 \in client.loads : ~l2.aborted => l2 = l
        /\ client.objectUrls \subseteq {client.blobUrlRef}
        /\ client.documentToPreview = Null =>
             client.objectUrls = {} /\ client.blobUrlRef = Null)
  /\ [][\A l \in client.loads :
          (l.aborted /\ l \notin client'.loads) =>
            /\ client'.blobUrl = client.blobUrl
            /\ client'.isLoading = client.isLoading
            /\ client'.documentToPreview = client.documentToPreview
            /\ client'.blobUrlRef = client.blobUrlRef
            /\ client'.objectUrls = client.objectUrls
            /\ client'.called = NoCall]_vars

C29_Witness ==
  /\ client.documentToPreview = Null
  /\ client.blobUrl # Null
  /\ client.objectUrls = {}
  /\ \E l \in client.loads : l.aborted /\ l.at = "response" /\ l.status = 200
  /\ \E l \in client.loads : l.aborted /\ l.at = "response" /\ l.status = 0

====
